---- MODULE Spec2Model ----
(***************************************************************************)
(* A model of main.py, the NBA Telegram AutoBot: the deduplicated          *)
(* feed-ingestion loop (check_feeds with was_posted / mark_posted over the *)
(* SQLite ledger), the image resolver (get_feed_entry_image_url), the      *)
(* publish call (post_to_channel), the schedule renderer                   *)
(* (build_daily_schedule_image) and the CTA composer (post_cta).           *)
(*                                                                         *)
(* Python values are modelled as follows.  A missing field, None and the   *)
(* empty string are all "" (the code only tests their truthiness); bytes   *)
(* are strings, b"" being "".  A call that can raise takes its outcome     *)
(* from a small set and the enclosing try/except decides what follows.     *)
(***************************************************************************)
EXTENDS Naturals, Sequences, FiniteSets

(***************************************************************************)
(* Bounds of the model.                                                    *)
(***************************************************************************)
MaxCycles == 2        \* check_feeds invocations explored
MaxEntries == 2       \* entries a live feed source delivers at most
MaxStatic == 1        \* entries of a feed source that never changes
MaxCount == 2         \* publish attempts per guid are counted up to this
MaxLinks == 2         \* link relations of an entry given to the resolver
MaxEvents == 7        \* events in a scoreboard payload given to the renderer
MaxCtaEvents == 2     \* events in a scoreboard payload given to post_cta
MaxRawLen == 6        \* characters of the text given to extract_excerpt
MaxChars == 3         \* max_chars values given to extract_excerpt: 1..MaxChars

(***************************************************************************)
(* Program constants.                                                      *)
(***************************************************************************)
FEED_WINDOW == 8      \* fp.entries[:8]
H == 1080
row_h == 150
max_rows == 6
title_h == 180
footer_h == 70
ROW_GAP == 12         \* bottom = top + row_h - 12
ROW_OFFSET == 10      \* y = title_h + 10

RSS_FEEDS == <<"espn", "yahoo">>
Procs == {1, 2}       \* job instances that may run check_feeds

Min(S) == CHOOSE x \in S : \A y \in S : x <= y
Take(s, n) == SubSeq(s, 1, Min({n, Len(s)}))
SeqsUpTo(S, n) == UNION {[1..k -> S] : k \in 0..n}

(***************************************************************************)
(* Feed entries.                                                           *)
(***************************************************************************)
NoLinks == <<>>
NoMedia == <<>>

Entry(id, guid, link, mc, mt, links) ==
    [id |-> id, guid |-> guid, link |-> link,
     media_content |-> mc, media_thumbnail |-> mt, links |-> links]

ImageTypes == {"image/png"}
LinkRels == {"enclosure", "preview", "alternate"}
LinkTypes == {"image/png", "text/html"}
LinkRecs == [rel : LinkRels, type : LinkTypes, href : {"", "h1"}]

\* The entries a feed source of the ingestion model may deliver.
EntryPool ==
    { Entry("g1", "", "l1", <<"u1">>, NoMedia, NoLinks),
      Entry("", "g1", "l2", NoMedia, NoMedia, NoLinks),
      Entry("", "", "l1", NoMedia, NoMedia,
            <<[rel |-> "enclosure", type |-> "image/png", href |-> ""]>>),
      Entry("", "", "", <<"u1">>, NoMedia, NoLinks) }

\* A feed source is either live (each poll may deliver any entries) or
\* static (each poll delivers the same entries).
Live == [live |-> TRUE, items |-> <<>>]
Static(items) == [live |-> FALSE, items |-> items]
StaticSources == {Static(c) : c \in SeqsUpTo(EntryPool, MaxStatic)}

\* guid = entry.get("id") or entry.get("guid") or entry.get("link")
DeriveGuid(e) ==
    IF e.id # "" THEN e.id ELSE IF e.guid # "" THEN e.guid ELSE e.link

Guids == {DeriveGuid(e) : e \in EntryPool}

(***************************************************************************)
(* Image resolver.                                                         *)
(***************************************************************************)
OgResponses == {"error", "notag", "o1"}

\* fetch_opengraph_image: "" on a network failure or a page without the tag
fetch_opengraph_image(resp) ==
    IF resp \in {"error", "notag"} THEN "" ELSE resp

\* entry[key][0].get("url") when key is present and non-empty
MediaUrl(list) == IF list = <<>> THEN "" ELSE list[1]

Tier1Url(e) ==
    IF MediaUrl(e.media_content) # "" THEN MediaUrl(e.media_content)
    ELSE MediaUrl(e.media_thumbnail)

IsImageLink(l) == l.rel \in {"enclosure", "preview"} /\ l.type \in ImageTypes

ImageLinkIdx(e) == {i \in DOMAIN e.links : IsImageLink(e.links[i])}

\* The resolver's result and the tiers it attempted, in order.
get_feed_entry_image_url_eager(e, resp) ==
    IF e.link # ""
    THEN [url |-> IF fetch_opengraph_image(resp) # ""
                  THEN fetch_opengraph_image(resp) ELSE Tier1Url(e),
          tried |-> <<3, 1>>]
    ELSE [url |-> Tier1Url(e), tried |-> <<1>>]

get_feed_entry_image_url(e, resp) ==
    IF Tier1Url(e) # ""
    THEN [url |-> Tier1Url(e), tried |-> <<1>>]
    ELSE IF ImageLinkIdx(e) # {}
    THEN [url |-> e.links[Min(ImageLinkIdx(e))].href, tried |-> <<1, 2>>]
    ELSE IF e.link # ""
    THEN [url |-> fetch_opengraph_image(resp), tried |-> <<1, 2, 3>>]
    ELSE [url |-> "", tried |-> <<1, 2>>]

(***************************************************************************)
(* Publish capability.                                                     *)
(***************************************************************************)
\* post_to_channel: the Bot API call chosen from the arguments
post_to_channel(image_url, image_bytes) ==
    IF image_bytes # "" THEN "photo_bytes"
    ELSE IF image_url # "" THEN "photo_url"
    ELSE "message"

PlaceholderReads == {"PH", "", "oserror"}

\* check_feeds lines 337-344: the call made for an entry
EntryPublishCall_swapped(img_url, ph) ==
    IF ph \notin {"", "oserror"} THEN post_to_channel("", ph)
    ELSE post_to_channel(img_url, "")

EntryPublishCall(img_url, ph) ==
    IF img_url # "" THEN post_to_channel(img_url, "")
    ELSE IF ph = "oserror" THEN post_to_channel("", "")
    ELSE post_to_channel("", ph)

\* whether a failed delivery (ok = FALSE) leaves post_to_channel as an
\* exception: the TelegramError is caught and logged inside it
post_to_channel_raises_uncaught(ok) == ~ok

post_to_channel_raises(ok) == FALSE

\* check_feeds lines 337-344: all the post_to_channel calls made for an
\* entry; the except of the placeholder tier would publish text only if the
\* call inside its try raised
EntryPublishCalls_retryText(img_url, ph, ok) ==
    IF img_url = "" /\ ph # "oserror" /\ ~ok
    THEN <<EntryPublishCall(img_url, ph), post_to_channel("", "")>>
    ELSE <<EntryPublishCall(img_url, ph)>>

EntryPublishCalls(img_url, ph, ok) ==
    IF img_url = "" /\ ph # "oserror" /\ post_to_channel_raises(ok)
    THEN <<EntryPublishCall(img_url, ph), post_to_channel("", "")>>
    ELSE <<EntryPublishCall(img_url, ph)>>

\* whether an exception of the entry's publish reaches the feed's except:
\* only from a call outside the try of the placeholder tier
PublishEscapes(img_url, ph, ok) ==
    post_to_channel_raises(ok) /\ (img_url # "" \/ ph = "oserror")

(***************************************************************************)
(* Ledger (table posts, guid UNIQUE).                                      *)
(***************************************************************************)
LedgerGuids(rows) == {r.guid : r \in rows}

was_posted(rows, guid) == guid \in LedgerGuids(rows)

\* a ledger that overwrites the row of a guid it already holds
mark_posted_replace(rows, feed, guid) ==
    {r \in rows : r.guid # guid} \cup {[feed |-> feed, guid |-> guid]}

\* INSERT OR IGNORE
mark_posted(rows, feed, guid) ==
    IF guid \in LedgerGuids(rows) THEN rows
    ELSE rows \cup {[feed |-> feed, guid |-> guid]}

\* if not guid or was_posted(guid): continue
SkipEntry_noGuidCheck(guid, posted) == posted

SkipEntry_noLedgerCheck(guid, posted) == guid = ""

SkipEntry(guid, posted) == guid = "" \/ posted

\* lines 333-345: where the loop body goes after the existence check: to the
\* next entry on continue, otherwise to the publish (the ledger write
\* follows the publish)
AfterCheck_recordOnly(skip) == IF skip THEN "entry" ELSE "mark"

AfterCheck(skip) == IF skip THEN "entry" ELSE "publish"

\* lines 347-348: which exceptions of the feed's try block the except clause
\* catches: except Exception catches a parse, a storage and a delivery
\* exception alike
FeedExceptCatches_parseOnly(kind) == kind = "parse"

FeedExceptCatches(kind) == TRUE

\* except Exception: log, and the for loop takes the next feed
AfterFeedError_abort(f) == Len(RSS_FEEDS) + 1

AfterFeedError(f) == f + 1

(***************************************************************************)
(* State.                                                                  *)
(***************************************************************************)
VARIABLES
    feeds,        \* per feed source: Live, or the entries it always delivers
    ledger,       \* rows of table posts
    attempts,     \* publish attempts made so far, per derived guid
    pc,           \* position of each check_feeds instance
    feedIdx,      \* index into RSS_FEEDS of each instance
    entIdx,       \* index into fp.entries[:8] of each instance
    cur,          \* the entry each instance is processing
    cycles,       \* check_feeds invocations started
    seen,         \* per static feed: how the latest pass over it went
    pass,         \* per instance: the pass over the current feed
    visited,      \* per instance: feeds whose processing started this cycle
    failed,       \* per instance: feeds whose processing raised this cycle
    lastPub,      \* the most recent publish call of check_feeds
    entry,        \* resolver: the entry given
    ogResp,       \* resolver: what the article page answers
    resolved,     \* resolver: result and tiers attempted
    events,       \* today's scoreboard payload
    rendered,     \* build_daily_schedule_image: rows drawn, or raised
    ctaIn,        \* post_cta: outcomes of its calls
    ctaCalls,     \* post_cta: the publish calls it made
    raw,          \* extract_excerpt: the entry's richest text field
    limit,        \* extract_excerpt: max_chars
    excerpt       \* extract_excerpt: normalised text and result

feedVars == <<feeds, ledger, attempts, pc, feedIdx, entIdx, cur, cycles,
              seen, pass, visited, failed, lastPub>>
resVars == <<entry, ogResp, resolved>>
schedVars == <<events, rendered, ctaIn, ctaCalls>>
excVars == <<raw, limit, excerpt>>
vars == <<feedVars, resVars, schedVars, excVars>>

NumFeeds == Len(RSS_FEEDS)
FeedIds == 1..NumFeeds

NoEntry == Entry("", "", "", NoMedia, NoMedia, NoLinks)
NoPass == [prev |-> "new", pubs |-> 0, adds |-> 0]
NoPub == [guid |-> "", img_url |-> "", ph |-> "unread", call |-> "none",
          n |-> 0, ok |-> TRUE]
NoResolved == [url |-> "", tried |-> <<>>]
NoRender == [raised |-> FALSE, rows |-> <<>>, called |-> FALSE]
NoCtaIn == [sched |-> "none", fetch |-> "none", delivery |-> <<>>,
            raised |-> FALSE]
NoExcerpt == [text |-> <<>>, body |-> <<>>, ellipsis |-> FALSE,
              called |-> FALSE]

IdleFeeds ==
    /\ ledger = {}
    /\ attempts = [g \in Guids \cup {""} |-> 0]
    /\ pc = [p \in Procs |-> "idle"]
    /\ feedIdx = [p \in Procs |-> 1]
    /\ entIdx = [p \in Procs |-> 1]
    /\ cur = [p \in Procs |-> NoEntry]
    /\ cycles = 0
    /\ seen = [f \in FeedIds |-> "new"]
    /\ pass = [p \in Procs |-> NoPass]
    /\ visited = [p \in Procs |-> {}]
    /\ failed = [p \in Procs |-> {}]
    /\ lastPub = NoPub

IdleResolver ==
    /\ entry = NoEntry
    /\ ogResp = "notag"
    /\ resolved = NoResolved

IdleSched ==
    /\ events = <<>>
    /\ rendered = NoRender
    /\ ctaIn = NoCtaIn
    /\ ctaCalls = <<>>

IdleExcerpt ==
    /\ raw = <<>>
    /\ limit = 1
    /\ excerpt = NoExcerpt

Init ==
    /\ feeds = [f \in FeedIds |-> Live]
    /\ IdleFeeds /\ IdleResolver /\ IdleSched /\ IdleExcerpt

(***************************************************************************)
(* What a poll of feed source f delivers.                                  *)
(***************************************************************************)
\* the entries that may stand at position i of fp.entries[:8]
Delivered(f, i) ==
    IF i > FEED_WINDOW THEN {}
    ELSE IF feeds[f].live
    THEN (IF i <= MaxEntries THEN EntryPool ELSE {})
    ELSE (IF i <= Len(feeds[f].items) THEN {feeds[f].items[i]} ELSE {})

\* whether fp.entries[:8] may end before position i
MayEnd(f, i) ==
    \/ i > FEED_WINDOW
    \/ feeds[f].live
    \/ i > Len(feeds[f].items)

Count(n) == IF n < MaxCount THEN n + 1 ELSE n

(***************************************************************************)
(* check_feeds, one step per storage or network call.                      *)
(***************************************************************************)
\* the for loop over RSS_FEEDS moves to feed nf, or the job returns
Advance(p, nf) ==
    /\ feedIdx' = [feedIdx EXCEPT ![p] = nf]
    /\ pc' = [pc EXCEPT ![p] = IF nf > NumFeeds THEN "idle" ELSE "parse"]

\* an exception of the given kind inside the try of feed f: logged, next
\* feed; an exception the except clause does not catch leaves check_feeds
FeedError(p, kind) ==
    /\ failed' = [failed EXCEPT ![p] = @ \cup {feedIdx[p]}]
    /\ IF FeedExceptCatches(kind)
       THEN Advance(p, AfterFeedError(feedIdx[p]))
       ELSE /\ pc' = [pc EXCEPT ![p] = "raised"]
            /\ feedIdx' = feedIdx

\* the scheduler (or main) invokes check_feeds
StartCycle(p) ==
    /\ pc[p] = "idle"
    /\ cycles < MaxCycles
    /\ cycles' = cycles + 1
    /\ visited' = [visited EXCEPT ![p] = {}]
    /\ failed' = [failed EXCEPT ![p] = {}]
    /\ Advance(p, 1)
    /\ UNCHANGED <<resVars, schedVars, excVars>>
    /\ UNCHANGED <<feeds, ledger, attempts, entIdx, cur, seen, pass, lastPub>>

\* fp = feedparser.parse(feed_url) raises
ParseFail(p) ==
    /\ pc[p] = "parse"
    /\ visited' = [visited EXCEPT ![p] = @ \cup {feedIdx[p]}]
    /\ FeedError(p, "parse")
    /\ UNCHANGED <<resVars, schedVars, excVars>>
    /\ UNCHANGED <<feeds, ledger, attempts, entIdx, cur, cycles, seen, pass,
                   lastPub>>

\* fp = feedparser.parse(feed_url); feed_name = ...
ParseOk(p) ==
    /\ pc[p] = "parse"
    /\ visited' = [visited EXCEPT ![p] = @ \cup {feedIdx[p]}]
    /\ entIdx' = [entIdx EXCEPT ![p] = 1]
    /\ pass' = [pass EXCEPT ![p] =
                   [prev |-> seen[feedIdx[p]], pubs |-> 0, adds |-> 0]]
    /\ seen' = [seen EXCEPT ![feedIdx[p]] =
                   IF feeds[feedIdx[p]].live THEN @ ELSE "aborted"]
    /\ pc' = [pc EXCEPT ![p] = "entry"]
    /\ UNCHANGED <<resVars, schedVars, excVars>>
    /\ UNCHANGED <<feeds, ledger, attempts, feedIdx, cur, cycles, failed,
                   lastPub>>

\* fp.entries[:8] is exhausted: the try block of this feed ends normally
FeedDone(p) ==
    /\ pc[p] = "entry"
    /\ MayEnd(feedIdx[p], entIdx[p])
    /\ seen' = [seen EXCEPT ![feedIdx[p]] =
                   IF @ = "aborted" THEN "complete" ELSE @]
    /\ Advance(p, feedIdx[p] + 1)
    /\ UNCHANGED <<resVars, schedVars, excVars>>
    /\ UNCHANGED <<feeds, ledger, attempts, entIdx, cur, cycles, pass,
                   visited, failed, lastPub>>

\* guid = ...; if not guid or was_posted(guid): continue
CheckEntry(p) ==
    /\ pc[p] = "entry"
    /\ \E e \in Delivered(feedIdx[p], entIdx[p]) :
         /\ cur' = [cur EXCEPT ![p] = e]
         /\ LET skip == SkipEntry(DeriveGuid(e),
                                  was_posted(ledger, DeriveGuid(e)))
            IN /\ pc' = [pc EXCEPT ![p] = AfterCheck(skip)]
               /\ entIdx' = [entIdx EXCEPT ![p] = IF skip THEN @ + 1 ELSE @]
    /\ UNCHANGED <<resVars, schedVars, excVars>>
    /\ UNCHANGED <<feeds, ledger, attempts, feedIdx, cycles, seen, pass,
                   visited, failed, lastPub>>

\* was_posted(guid) raises (sqlite3 error); not called when guid is falsy
CheckEntryFail(p) ==
    /\ pc[p] = "entry"
    /\ \E e \in Delivered(feedIdx[p], entIdx[p]) :
         /\ DeriveGuid(e) # ""
         /\ cur' = [cur EXCEPT ![p] = e]
    /\ FeedError(p, "storage")
    /\ UNCHANGED <<resVars, schedVars, excVars>>
    /\ UNCHANGED <<feeds, ledger, attempts, entIdx, cycles, seen, pass,
                   visited, lastPub>>

\* format_entry, get_feed_entry_image_url, and the publish of lines 337-344;
\* post_to_channel catches the TelegramError of a failed delivery
Publish(p) ==
    /\ pc[p] = "publish"
    /\ \E resp \in OgResponses, ph \in PlaceholderReads, ok \in BOOLEAN :
         LET guid == DeriveGuid(cur[p])
             img_url == get_feed_entry_image_url(cur[p], resp).url
             calls == EntryPublishCalls(img_url, ph, ok)
         IN /\ attempts' = [attempts EXCEPT ![guid] =
                               IF Len(calls) = 1 THEN Count(@)
                               ELSE Count(Count(@))]
            /\ lastPub' = [guid |-> guid, img_url |-> img_url,
                           ph |-> IF img_url # "" THEN "unread" ELSE ph,
                           call |-> calls[1], n |-> Len(calls),
                           ok |-> ok]
            /\ pass' = [pass EXCEPT ![p].pubs = @ + Len(calls)]
            /\ IF PublishEscapes(img_url, ph, ok)
               THEN FeedError(p, "delivery")
               ELSE /\ pc' = [pc EXCEPT ![p] = "mark"]
                    /\ UNCHANGED <<feedIdx, failed>>
    /\ UNCHANGED <<resVars, schedVars, excVars>>
    /\ UNCHANGED <<feeds, ledger, entIdx, cur, cycles, seen, visited>>

\* mark_posted(feed_url, guid, ...); time.sleep(2)
Mark(p) ==
    /\ pc[p] = "mark"
    /\ LET rows == mark_posted(ledger, RSS_FEEDS[feedIdx[p]],
                               DeriveGuid(cur[p]))
       IN /\ ledger' = rows
          /\ pass' = [pass EXCEPT ![p].adds =
                         @ + Cardinality(rows) - Cardinality(ledger)]
    /\ entIdx' = [entIdx EXCEPT ![p] = @ + 1]
    /\ pc' = [pc EXCEPT ![p] = "entry"]
    /\ UNCHANGED <<resVars, schedVars, excVars>>
    /\ UNCHANGED <<feeds, attempts, feedIdx, cur, cycles, seen, visited,
                   failed, lastPub>>

\* mark_posted raises (sqlite3 error)
MarkFail(p) ==
    /\ pc[p] = "mark"
    /\ FeedError(p, "storage")
    /\ UNCHANGED <<resVars, schedVars, excVars>>
    /\ UNCHANGED <<feeds, ledger, attempts, entIdx, cur, cycles, seen, pass,
                   visited, lastPub>>

\* check_feeds does not overlap itself: main calls it once, then the
\* scheduler runs job "feeds" one instance at a time
Next ==
    \/ StartCycle(1)
    \/ ParseFail(1)
    \/ ParseOk(1)
    \/ FeedDone(1)
    \/ CheckEntry(1)
    \/ CheckEntryFail(1)
    \/ Publish(1)
    \/ Mark(1)
    \/ MarkFail(1)

Spec == Init /\ [][Next]_vars

\* feed sources that deliver the same entries at every poll
InitStatic ==
    /\ feeds \in [FeedIds -> StaticSources]
    /\ IdleFeeds /\ IdleResolver /\ IdleSched /\ IdleExcerpt

SpecRepoll == InitStatic /\ [][Next]_vars

\* two check_feeds instances with no mutual exclusion between them, polling
\* the same sources
NextOverlap ==
    \E p \in Procs :
        \/ StartCycle(p)
        \/ ParseFail(p)
        \/ ParseOk(p)
        \/ FeedDone(p)
        \/ CheckEntry(p)
        \/ CheckEntryFail(p)
        \/ Publish(p)
        \/ Mark(p)
        \/ MarkFail(p)

SpecOverlap == InitStatic /\ [][NextOverlap]_vars

(***************************************************************************)
(* The image resolver on every entry shape.                                *)
(***************************************************************************)
MediaLists == {NoMedia, <<"">>, <<"u1">>}

ResolverEntries ==
    {Entry("", "", l, mc, mt, ls) :
        l \in {"", "l1"}, mc \in MediaLists, mt \in MediaLists,
        ls \in SeqsUpTo(LinkRecs, MaxLinks)}

InitResolver ==
    /\ entry \in ResolverEntries
    /\ ogResp \in OgResponses
    /\ resolved = NoResolved
    /\ feeds = [f \in FeedIds |-> Live]
    /\ IdleFeeds /\ IdleSched /\ IdleExcerpt

\* img_url = get_feed_entry_image_url(entry)
Resolve ==
    /\ resolved = NoResolved
    /\ resolved' = get_feed_entry_image_url(entry, ogResp)
    /\ UNCHANGED <<entry, ogResp, feedVars, schedVars, excVars>>

NextResolver == Resolve

SpecResolver == InitResolver /\ [][NextResolver]_vars

(***************************************************************************)
(* Schedule renderer.                                                      *)
(***************************************************************************)
\* an event of the scoreboard payload:
\*   "ok"       competitions[0].competitors has two sides
\*   "nocomps"  competitions missing or empty
\*   "oneteam"  competitors does not have two sides
\*   "bad"      data the row code raises on (e.g. "team": null)
EventKinds == {"ok", "nocomps", "oneteam", "bad"}

SHADE_A == <<24, 26, 38>>
SHADE_B == <<18, 20, 30>>

\* top = y + shown * row_h, with y = title_h + 10
RowTop(shown) == title_h + ROW_OFFSET + shown * row_h

\* bottom = top + row_h - 12
RowBottom(top) == top + row_h - ROW_GAP

\* fill_row = (24, 26, 38) if shown % 2 == 0 else (18, 20, 30)
RowShade(shown) == IF shown % 2 = 0 THEN SHADE_A ELSE SHADE_B

\* a renderer that indexes slot and shade by the event's source position
Row_bySource(src, shown) ==
    [src |-> src, slot |-> src - 1, top |-> RowTop(src - 1),
     bottom |-> RowBottom(RowTop(src - 1)), shade |-> RowShade(src - 1)]

Row(src, shown) ==
    [src |-> src, slot |-> shown, top |-> RowTop(shown),
     bottom |-> RowBottom(RowTop(shown)), shade |-> RowShade(shown)]

\* for ev in events[:max_rows]
RowWindow(evs) == [i \in 1..Min({max_rows, Len(evs)}) |-> i]

\* the loop of lines 193-240 over the source indexes in win
RECURSIVE DrawRows(_, _, _, _)
DrawRows(evs, win, k, rows) ==
    IF k > Len(win) THEN [raised |-> FALSE, rows |-> rows, called |-> TRUE]
    ELSE IF evs[win[k]] \in {"nocomps", "oneteam"}
    THEN DrawRows(evs, win, k + 1, rows)
    ELSE IF evs[win[k]] = "bad"
    THEN [raised |-> TRUE, rows |-> <<>>, called |-> TRUE]
    ELSE DrawRows(evs, win, k + 1, Append(rows, Row(win[k], Len(rows))))

build_daily_schedule_image(evs) == DrawRows(evs, RowWindow(evs), 1, <<>>)

InitRender ==
    /\ events \in SeqsUpTo(EventKinds, MaxEvents)
    /\ rendered = NoRender
    /\ ctaIn = NoCtaIn
    /\ ctaCalls = <<>>
    /\ feeds = [f \in FeedIds |-> Live]
    /\ IdleFeeds /\ IdleResolver /\ IdleExcerpt

\* img_bytes = build_daily_schedule_image(events)
Render ==
    /\ ~rendered.called
    /\ rendered' = build_daily_schedule_image(events)
    /\ UNCHANGED <<events, ctaIn, ctaCalls, feedVars, resVars, excVars>>

NextRender == Render

SpecRender == InitRender /\ [][NextRender]_vars

(***************************************************************************)
(* CTA composer.                                                           *)
(***************************************************************************)
FetchOutcomes == {"ok", "error"}

\* fetch_todays_games_message: the text appended to the CTA message
fetch_todays_games_message(fetch, evs) ==
    IF fetch = "error" THEN "unavailable"
    ELSE IF evs = <<>> THEN "nogames"
    ELSE IF \E i \in DOMAIN evs : evs[i] = "bad" THEN "unavailable"
    ELSE "games"

\* lines 397-411: the post_to_channel calls of one post_cta invocation
post_cta_calls_noReturn(fetch, evs) ==
    IF fetch = "ok" /\ evs # <<>> /\ ~build_daily_schedule_image(evs).raised
    THEN <<post_to_channel("", "PNG"), post_to_channel("", "")>>
    ELSE <<post_to_channel("", "")>>

post_cta_calls(fetch, evs) ==
    IF fetch = "ok" /\ evs # <<>> /\ ~build_daily_schedule_image(evs).raised
    THEN <<post_to_channel("", "PNG")>>
    ELSE <<post_to_channel("", "")>>

InitCta ==
    /\ events \in SeqsUpTo(EventKinds, MaxCtaEvents)
    /\ rendered = NoRender
    /\ ctaIn = NoCtaIn
    /\ ctaCalls = <<>>
    /\ feeds = [f \in FeedIds |-> Live]
    /\ IdleFeeds /\ IdleResolver /\ IdleExcerpt

\* whether post_cta ends with an exception: the scoreboard fetch and the
\* rendering are inside its try/except Exception, fetch_todays_games_message
\* has its own; only its post_to_channel calls could let one out
post_cta_raises(fetch, evs, ok) == post_to_channel_raises(ok)

\* one run of post_cta on scoreboard payload evs; post_to_channel catches a
\* failed delivery
PostCtaOn(evs) ==
    \E include \in BOOLEAN, fetch1 \in FetchOutcomes, fetch2 \in FetchOutcomes,
       ok \in BOOLEAN :
      LET calls == post_cta_calls(fetch2, evs) IN
      /\ ctaIn' = [sched |-> IF include
                             THEN fetch_todays_games_message(fetch1, evs)
                             ELSE "none",
                   fetch |-> fetch2,
                   delivery |-> [i \in DOMAIN calls |-> ok],
                   raised |-> post_cta_raises(fetch2, evs, ok)]
      /\ rendered' = IF fetch2 = "ok" /\ evs # <<>>
                     THEN build_daily_schedule_image(evs)
                     ELSE NoRender
      /\ ctaCalls' = calls

\* one run of job post_cta
PostCta ==
    /\ PostCtaOn(events)
    /\ UNCHANGED <<events, feedVars, resVars, excVars>>

NextCta == PostCta

SpecCta == InitCta /\ [][NextCta]_vars

(***************************************************************************)
(* Excerpt.                                                                *)
(***************************************************************************)
\* the characters of the texts given to extract_excerpt: a letter, a blank
\* and the two tag delimiters (no "&", so html.unescape changes nothing)
ExcerptChars == {"a", " ", "<", ">"}

Max(S) == CHOOSE x \in S : \A y \in S : x >= y

\* the position of the first ">" of s after position 1, or 0
TagEnd(s) ==
    IF \E i \in 2..Len(s) : s[i] = ">"
    THEN Min({i \in 2..Len(s) : s[i] = ">"}) ELSE 0

\* re.sub(r"<[^>]+>", " ", raw)
RECURSIVE StripTags(_)
StripTags(s) ==
    IF s = <<>> THEN <<>>
    ELSE IF s[1] = "<" /\ TagEnd(s) > 2
    THEN <<" ">> \o StripTags(SubSeq(s, TagEnd(s) + 1, Len(s)))
    ELSE <<s[1]>> \o StripTags(Tail(s))

\* re.sub(r"\s+", " ", text)
RECURSIVE CollapseSpaces(_)
CollapseSpaces(s) ==
    IF Len(s) < 2 THEN s
    ELSE IF s[1] = " " /\ s[2] = " " THEN CollapseSpaces(Tail(s))
    ELSE <<s[1]>> \o CollapseSpaces(Tail(s))

\* .strip(), on a text whose blanks are already collapsed
Strip(s) ==
    LET a == IF s # <<>> /\ s[1] = " " THEN Tail(s) ELSE s
    IN IF a # <<>> /\ a[Len(a)] = " " THEN SubSeq(a, 1, Len(a) - 1) ELSE a

\* lines 283-285
NormaliseText(s) == Strip(CollapseSpaces(StripTags(s)))

\* cut.rsplit(" ", 1)[0]
RsplitHead(cut) ==
    IF \E i \in DOMAIN cut : cut[i] = " "
    THEN SubSeq(cut, 1, Max({i \in DOMAIN cut : cut[i] = " "}) - 1)
    ELSE cut

\* lines 283-291: the normalised text, the part of the result before the
\* ellipsis, and whether the ellipsis was appended
extract_excerpt(s, max_chars) ==
    LET text == NormaliseText(s) IN
    IF Len(text) > max_chars
    THEN [text |-> text, body |-> RsplitHead(Take(text, max_chars)),
          ellipsis |-> TRUE, called |-> TRUE]
    ELSE [text |-> text, body |-> text, ellipsis |-> FALSE, called |-> TRUE]

InitExcerpt ==
    /\ raw \in SeqsUpTo(ExcerptChars, MaxRawLen)
    /\ limit \in 1..MaxChars
    /\ excerpt = NoExcerpt
    /\ feeds = [f \in FeedIds |-> Live]
    /\ IdleFeeds /\ IdleResolver /\ IdleSched

\* excerpt = extract_excerpt(entry)
Excerpt ==
    /\ ~excerpt.called
    /\ excerpt' = extract_excerpt(raw, limit)
    /\ UNCHANGED <<raw, limit, feedVars, resVars, schedVars>>

NextExcerpt == Excerpt

SpecExcerpt == InitExcerpt /\ [][NextExcerpt]_vars

(***************************************************************************)
(* The jobs of the scheduler.                                              *)
(***************************************************************************)
\* main runs check_feeds once, then starts the scheduler, which fires jobs
\* "feeds" and "cta_i"/"daily_schedule".  post_cta shares no state with
\* check_feeds, so the order of the two does not matter to either; here a
\* post_cta run, on the scoreboard payload of that moment, comes right after
\* the first check_feeds sweep, or the scheduler goes on with job "feeds".
CtaJob ==
    /\ cycles = 1
    /\ pc[1] = "idle"
    /\ ctaIn = NoCtaIn
    /\ \E evs \in SeqsUpTo(EventKinds, MaxCtaEvents) :
         /\ events' = evs
         /\ PostCtaOn(evs)
    /\ UNCHANGED <<feedVars, resVars, excVars>>

FeedsJob == ctaIn = NoCtaIn /\ Next

NextJobs == FeedsJob \/ CtaJob

SpecJobs == Init /\ [][NextJobs]_vars

(***************************************************************************)
(* The ledger under any sequence of mark_posted calls.                     *)
(***************************************************************************)
\* mark_posted(feed, guid, ...) called with the guid of entry e for feed f;
\* cur, feedIdx and pass.adds of instance 1 keep the call and its effect
MarkPosted ==
    \E f \in FeedIds, e \in EntryPool :
        LET rows == mark_posted(ledger, RSS_FEEDS[f], DeriveGuid(e)) IN
        /\ ledger' = rows
        /\ cur' = [cur EXCEPT ![1] = e]
        /\ feedIdx' = [feedIdx EXCEPT ![1] = f]
        /\ pass' = [pass EXCEPT ![1].adds =
                       Cardinality(rows) - Cardinality(ledger)]
        /\ UNCHANGED <<feeds, attempts, pc, entIdx, cycles, seen, visited,
                       failed, lastPub>>
        /\ UNCHANGED <<resVars, schedVars, excVars>>

NextLedger == MarkPosted

SpecLedger == Init /\ [][NextLedger]_vars

(***************************************************************************)
(* Properties.                                                             *)
(***************************************************************************)
\* C1: across any number of poll cycles run one after another, whatever the
\* feeds deliver and however the steps of a cycle end, entries deriving the
\* same guid get at most one publish attempt in total.
C1_AtMostOneAttempt == \A g \in Guids : attempts[g] <= 1

\* C2: an entry from which no guid can be derived is never published and
\* never written to the ledger: no instance is publishing or recording such
\* an entry, no publish attempt was ever made for the empty guid and no
\* ledger row carries it.
C2_NoGuidNeverPublished ==
    /\ \A p \in Procs : pc[p] \in {"publish", "mark"} => DeriveGuid(cur[p]) # ""
    /\ attempts[""] = 0
    /\ "" \notin LedgerGuids(ledger)

\* C2 witness: the pass has just skipped an entry that has no id, no guid
\* field and no link.
C2_Witness ==
    /\ pc[1] = "entry"
    /\ entIdx[1] > 1
    /\ cur[1] \in EntryPool
    /\ DeriveGuid(cur[1]) = ""

\* C3: when a check_feeds invocation has returned, every guid it made a
\* publish attempt for is in the ledger.
C3_AttemptedIsRecorded ==
    pc[1] = "idle" =>
        \A g \in Guids : attempts[g] > 0 => was_posted(ledger, g)

\* C4: two overlapping check_feeds instances, neither of which met any
\* failure, never publish a guid more than once.
C4_OverlapPublishesOnce ==
    ( /\ cycles = Cardinality(Procs)
      /\ \A p \in Procs : pc[p] # "idle" /\ failed[p] = {} )
    => \A g \in Guids : attempts[g] <= 1

\* C5: a failure while processing one feed is confined to it: inside a cycle
\* every feed before the current one has been started, and when the
\* invocation returns every configured feed has been started.
C5_FailureConfinedToFeed ==
    \A p \in Procs :
        /\ pc[p] # "idle" => \A f \in 1..(feedIdx[p] - 1) : f \in visited[p]
        /\ (pc[p] = "idle" /\ feedIdx[p] > NumFeeds) => visited[p] = FeedIds

\* C5 witness: the invocation has returned, the first feed raised, and the
\* second feed was processed to a publish.
C5_Witness ==
    /\ pc[1] = "idle"
    /\ 1 \in failed[1]
    /\ 2 \in visited[1]
    /\ 2 \notin failed[1]
    /\ pass[1].pubs > 0

C7_ThreeTiers ==
    lastPub.call # "none" =>
        /\ lastPub.img_url # "" => lastPub.call = "photo_url"
        /\ (lastPub.img_url = "" /\ lastPub.ph # "oserror")
              => lastPub.call = "photo_bytes"
        /\ lastPub.call = "message" => lastPub.ph = "oserror"

\* C7 (amended): an entry is published with the resolved image URL when
\* there is one; otherwise with the placeholder bytes when the placeholder
\* file is readable and not empty; and as text only when the placeholder
\* cannot be read or is empty.
C7_ThreeTiersNonEmpty ==
    lastPub.call # "none" =>
        /\ lastPub.img_url # "" => lastPub.call = "photo_url"
        /\ (lastPub.img_url = "" /\ lastPub.ph \notin {"", "oserror"})
              => lastPub.call = "photo_bytes"
        /\ (lastPub.img_url = "" /\ lastPub.ph \in {"", "oserror"})
              => lastPub.call = "message"

\* C7 witness: no image URL was resolved, the placeholder could not be
\* opened, and the entry went out as text only.
C7_Witness ==
    /\ lastPub.call = "message"
    /\ lastPub.img_url = ""
    /\ lastPub.ph = "oserror"

\* C8: the resolver goes through its tiers in the order 1, 2, 3; when tier 1
\* yields a URL it returns it and tiers 2 and 3 are not attempted; the
\* og:image fetch is attempted only when tier 1 yields no URL and no image
\* enclosure/preview link carries one.
C8_ResolverOrder ==
    resolved # NoResolved =>
        /\ resolved.tried \in {<<1>>, <<1, 2>>, <<1, 2, 3>>}
        /\ Tier1Url(entry) # "" =>
              resolved.tried = <<1>> /\ resolved.url = Tier1Url(entry)
        /\ (\E k \in DOMAIN resolved.tried : resolved.tried[k] = 3) =>
              /\ Tier1Url(entry) = ""
              /\ \A i \in DOMAIN entry.links :
                    IsImageLink(entry.links[i]) => entry.links[i].href = ""

\* C8 witness: tier 1 yielded the URL although the entry also has an image
\* enclosure with an href and an article link.
C8_Witness ==
    /\ resolved.tried = <<1>>
    /\ resolved.url # ""
    /\ \E i \in DOMAIN entry.links :
          IsImageLink(entry.links[i]) /\ entry.links[i].href # ""
    /\ entry.link # ""

\* C9: every post_cta invocation calls publish exactly once: with the
\* rendered image when the scoreboard fetch returned events and rendering
\* succeeded, with text only when the fetch or the rendering failed.
C9_CtaPublishesOnce ==
    ctaIn.fetch # "none" =>
        /\ Len(ctaCalls) = 1
        /\ (ctaIn.fetch = "ok" /\ events # <<>> /\ ~rendered.raised)
              => ctaCalls[1] = "photo_bytes"
        /\ (ctaIn.fetch = "error" \/ rendered.raised)
              => ctaCalls[1] = "message"

\* C9 witness: the scoreboard fetch returned events, rendering raised, and
\* the CTA went out as one text message.
C9_Witness ==
    /\ ctaIn.fetch = "ok"
    /\ rendered.raised
    /\ ctaCalls = <<"message">>

\* the source indexes of the events that have the two-competitor structure
WellFormed(evs) ==
    LET F[i \in 0..Len(evs)] ==
            IF i = 0 THEN <<>>
            ELSE IF evs[i] = "ok" THEN Append(F[i - 1], i) ELSE F[i - 1]
    IN F[Len(evs)]

\* C10: the rendered rows are the first min(6, number of well-formed events)
\* well-formed events, in input order.
C10_RowsAreFirstWellFormed ==
    (rendered.called /\ ~rendered.raised) =>
        [k \in DOMAIN rendered.rows |-> rendered.rows[k].src]
            = Take(WellFormed(events), max_rows)

\* C11: the k-th rendered row, counting rendered rows only and from 0, has
\* shade A when k is even and shade B when k is odd, and occupies slot k
\* (its top is k row heights below the first row's top), whatever malformed
\* events were skipped before it.
C11_ShadeAndSlotByRenderedPosition ==
    (rendered.called /\ ~rendered.raised) =>
        \A k \in 0..(Len(rendered.rows) - 1) :
            LET r == rendered.rows[k + 1] IN
            /\ r.shade = (IF k % 2 = 0 THEN <<24, 26, 38>> ELSE <<18, 20, 30>>)
            /\ r.slot = k
            /\ r.top = title_h + ROW_OFFSET + k * row_h

\* C11 witness: five events of which the second is malformed, rendered as
\* four rows.
C11_Witness ==
    /\ rendered.called /\ ~rendered.raised
    /\ Len(events) = 5
    /\ events[2] \in {"nocomps", "oneteam"}
    /\ Len(rendered.rows) = 4
    /\ rendered.rows[2].src = 3

\* C12: when the normalised text is longer than max_chars, the text before
\* the ellipsis is a prefix of the normalised text that ends at the end of a
\* whole word: the character that follows it in the normalised text is a
\* blank and it does not itself end with a blank.
C12_CutsAtWordBoundary ==
    (excerpt.called /\ Len(excerpt.text) > limit) =>
        /\ excerpt.ellipsis
        /\ Len(excerpt.body) < Len(excerpt.text)
        /\ excerpt.body = SubSeq(excerpt.text, 1, Len(excerpt.body))
        /\ excerpt.text[Len(excerpt.body) + 1] = " "
        /\ excerpt.body # <<>> => excerpt.body[Len(excerpt.body)] # " "

\* C13: the ledger is append-only and keyed by guid: no mark_posted call
\* removes or changes a row, a call for a guid already present leaves the
\* ledger as it was, and the ledger never holds two rows with the same guid.
C13_LedgerAppendOnly ==
    [][ /\ ledger \subseteq ledger'
        /\ \A r1, r2 \in ledger' : r1.guid = r2.guid => r1 = r2
        /\ was_posted(ledger, DeriveGuid(cur'[1])) => ledger' = ledger ]_vars

\* C13 witness: mark_posted has been called for a guid whose row had been
\* written for the other feed, and added nothing.
C13_Witness ==
    /\ pass[1].adds = 0
    /\ \E r \in ledger :
          /\ r.guid = DeriveGuid(cur[1])
          /\ r.feed # RSS_FEEDS[feedIdx[1]]

\* C14: a failed delivery does not abort the feed's loop: the step that
\* publishes an entry with a failed delivery goes on to the ledger write of
\* the same entry in the same feed, no feed failure is noted, and a ledger
\* write that returns is followed by the next position of the window.
C14_DeliveryFailureKeepsLoop ==
    [][ \A p \in Procs :
          /\ (pc[p] = "publish" /\ pc'[p] # "publish" /\ ~lastPub'.ok) =>
                /\ pc'[p] = "mark"
                /\ feedIdx'[p] = feedIdx[p]
                /\ entIdx'[p] = entIdx[p]
                /\ failed'[p] = failed[p]
          /\ (pc[p] = "mark" /\ pc'[p] = "entry") =>
                /\ feedIdx'[p] = feedIdx[p]
                /\ entIdx'[p] = entIdx[p] + 1 ]_vars

\* C14 witness: the delivery of the first entry of a pass failed, and the
\* instance is about to publish the second entry of the same pass.
C14_Witness ==
    /\ pc[1] = "publish"
    /\ entIdx[1] = 2
    /\ pass[1].pubs = 1
    /\ ~lastPub.ok
    /\ lastPub.guid # DeriveGuid(cur[1])

\* C15: for each new entry check_feeds processes, post_to_channel is called
\* exactly once, whichever tier is used and whether or not the delivery
\* fails; so a pass never makes more calls than it has processed entries.
C15_OnePublishPerEntry ==
    /\ lastPub.call # "none" => lastPub.n = 1
    /\ \A p \in Procs :
          /\ pc[p] \in {"entry", "publish"} => pass[p].pubs + 1 <= entIdx[p]
          /\ pc[p] = "mark" => pass[p].pubs <= entIdx[p]

\* C15 witness: the placeholder image was sent, its delivery failed, and no
\* second call was made for the entry.
C15_Witness ==
    /\ pc[1] = "mark"
    /\ lastPub.call = "photo_bytes"
    /\ ~lastPub.ok
    /\ lastPub.n = 1

\* C16: the resolver returns the URL of the first tier, in order, that has a
\* non-empty one: the media URL of tier 1; else the href of an image
\* enclosure/preview link that has one; else the og:image of the article
\* page; and it returns empty only when none of the three yields a URL.
C16_FirstNonEmptyTier ==
    resolved # NoResolved =>
        LET t1 == Tier1Url(entry)
            t2 == {entry.links[i].href : i \in ImageLinkIdx(entry)} \ {""}
            t3 == IF entry.link # "" THEN fetch_opengraph_image(ogResp)
                  ELSE ""
        IN /\ t1 # "" => resolved.url = t1
           /\ (t1 = "" /\ t2 # {}) => resolved.url \in t2
           /\ (t1 = "" /\ t2 = {}) => resolved.url = t3

\* C17: every guid in the ledger has had a publish attempt; an entry about
\* to be published passed the existence check (its guid is not in the
\* ledger), and an entry about to be recorded has been attempted.
C17_LedgerImpliesAttempt ==
    /\ \A g \in LedgerGuids(ledger) : attempts[g] > 0
    /\ pc[1] = "publish" => ~was_posted(ledger, DeriveGuid(cur[1]))
    /\ pc[1] = "mark" =>
          /\ attempts[DeriveGuid(cur[1])] > 0
          /\ lastPub.guid = DeriveGuid(cur[1])

\* C17 witness: the first entry of a pass was published, its delivery
\* failed, and it has just been recorded.
C17_Witness ==
    /\ pc[1] = "entry"
    /\ ~lastPub.ok
    /\ lastPub.guid = DeriveGuid(cur[1])
    /\ entIdx[1] = 2
    /\ pass[1].pubs = 1
    /\ pass[1].adds = 1
    /\ was_posted(ledger, lastPub.guid)
    /\ attempts[lastPub.guid] = 1

\* C18: no failure inside a job reaches the scheduler: check_feeds never
\* ends with an exception, and when it has returned its loop went through
\* every configured feed; post_cta never ends with an exception and has made
\* its publish call.
C18_NoFailureReachesScheduler ==
    /\ \A p \in Procs : pc[p] # "raised"
    /\ (pc[1] = "idle" /\ cycles > 0) =>
          (feedIdx[1] = NumFeeds + 1 /\ visited[1] = FeedIds)
    /\ ~ctaIn.raised
    /\ ctaIn.fetch # "none" => Len(ctaCalls) = 1

\* C18 witness: a check_feeds invocation in which one feed failed to parse
\* and the other met a storage error has returned, and so has a post_cta run
\* whose scoreboard text and scoreboard fetch both failed and whose delivery
\* failed too.
C18_Witness ==
    /\ pc[1] = "idle"
    /\ failed[1] = FeedIds
    /\ cur[1] # NoEntry
    /\ ctaIn.sched = "unavailable"
    /\ ctaIn.fetch = "error"
    /\ ctaIn.delivery = <<FALSE>>
    /\ ctaCalls = <<"message">>

\* C19: every rendered row's rectangle lies inside the body region of the
\* canvas: its top is at or below the header bottom (y = title_h) and its
\* bottom is at or above the top of the footer region (y = H - footer_h).
C19_RowsInsideBody ==
    (rendered.called /\ ~rendered.raised) =>
        \A k \in DOMAIN rendered.rows :
            /\ rendered.rows[k].top >= title_h
            /\ rendered.rows[k].bottom <= H - footer_h

====
